---- MODULE Spec2Model ----
(***************************************************************************)
(* Model of the fake-news-detector serving core: the ModelLoader fallback  *)
(* chain (src/src/api/model_loader.py), the FastAPI entry points that read *)
(* the loader (src/src/api/app.py) and the S3 client                       *)
(* (src/src/storage/s3_client.py).                                         *)
(*                                                                         *)
(* Every endpoint is an `async def` that never suspends (the only awaits   *)
(* are of coroutines that themselves perform blocking calls), so one       *)
(* handler runs to completion on the event loop before another starts:     *)
(* in Spec each handler is one atomic action.  SpecLoop cuts a load at its *)
(* awaits and lets the event loop schedule the request tasks; SpecStore    *)
(* is the S3 client against the service and the file system.               *)
(***************************************************************************)
EXTENDS Integers, Sequences, FiniteSets, TLC

VARIABLES
    loader,        \* a ModelLoader object has been constructed
    model_loader,  \* app.py global `model_loader` is bound to it (not None)
    s3_client,     \* self.s3_client is not None
    s3_config,     \* self.s3_config
    model,         \* self.model
    vectorizer,    \* self.vectorizer
    model_info,    \* self.model_info
    last_loaded,   \* self.last_loaded (0 is None)
    clock,         \* number of load calls made so far: datetime.now()
    started,       \* startup_event has run
    call,          \* the load call the last step made: what it met and returned
    resp,          \* the answer the last step gave to its caller
    tasks,         \* the event loop's request tasks: where each handler stands
    running,       \* the task the event loop is executing (0: none)
    store,         \* the S3 service: reachability, buckets, objects
    tmp_files,     \* files in tempfile.gettempdir() left by S3Client calls
    local_files,   \* the files at the paths a caller passes as local_path
    uploaded,      \* per key: what upload_model last stored, if still in place
    reply          \* what the last S3Client call was given and returned

\* the event loop's own state
loopVars == <<tasks, running>>

\* the S3 service and the file system as S3Client sees them
storeVars == <<store, tmp_files, local_files, uploaded, reply>>

\* the loader and the app
loaderVars == <<loader, model_loader, s3_client, s3_config, model, vectorizer,
                model_info, last_loaded, clock, started, call, resp>>

vars == <<loaderVars, loopVars, storeVars>>

----------------------------------------------------------------------------
(* Bounds *)

\* load calls (startup load, reloads, direct loads) in one behaviour
MaxLoads == 2

\* characters in a request text
MaxTextLen == 2

----------------------------------------------------------------------------
(* Artifacts *)

\* Python's None for self.model / self.vectorizer
None == [kind |-> "none", origin |-> "none", file |-> "none", gen |-> 0, fit |-> FALSE]

\* An object obtained by tier `origin` during load call number `gen`.
\* kind is what the object is (a classifier has predict/predict_proba, a
\* vectorizer has transform); file is the local file it was read from.
Artifact(kind, origin, file, gen, fit) ==
    [kind |-> kind, origin |-> origin, file |-> file, gen |-> gen, fit |-> fit]

\* self.model_info = {} after construction
EmptyInfo == [source |-> "none", loaded_at |-> 0]

\* the fields of the holder as one value
Holder == [model |-> model, vectorizer |-> vectorizer,
           model_info |-> model_info, last_loaded |-> last_loaded]

\* a constructor that records a load that never happened
EmptyHolder_StampsLoad == [model |-> None, vectorizer |-> None,
                           model_info |-> EmptyInfo, last_loaded |-> 1]

\* the holder fields as __init__ sets them
EmptyHolder == [model |-> None, vectorizer |-> None,
                model_info |-> EmptyInfo, last_loaded |-> 0]

\* no ModelLoader, no s3_config
NoConfig == [endpoint_url |-> "none", bucket_name |-> "none",
             model_key |-> "none", vectorizer_key |-> "none"]

\* the s3_config of create_model_loader() and of startup_event with no
\* environment variables set
DefaultConfig == [endpoint_url |-> "http://localhost:4566",
                  bucket_name |-> "fake-news-models",
                  model_key |-> "models/best_model.joblib",
                  vectorizer_key |-> "models/vectorizer.joblib"]

\* the s3_config of the loader's tests
TestConfig == [endpoint_url |-> "http://localhost:4566",
               bucket_name |-> "test-bucket",
               model_key |-> "test-model.joblib",
               vectorizer_key |-> "test-vectorizer.joblib"]

\* the configurations a ModelLoader is constructed with
Configs == {DefaultConfig, TestConfig}

\* is_model_loaded looking at the model alone
IsModelLoaded_ModelOnly(h) == h.model /= None

\* ModelLoader.is_model_loaded
IsModelLoaded(h) == h.model /= None /\ h.vectorizer /= None

----------------------------------------------------------------------------
(* The environment a load call runs in *)

ObjectStates == {"absent", "corrupt", "ok"}

\* the remote store as seen through S3Client.download_model.  What an
\* unreachable store holds is never seen, and the vectorizer is not asked
\* for once the model download failed: one store stands for each such case.
S3Envs ==
    {s \in [reachable : BOOLEAN, model_obj : ObjectStates, vec_obj : ObjectStates] :
        /\ ~s.reachable => s.model_obj = "ok" /\ s.vec_obj = "ok"
        /\ s.model_obj /= "ok" => s.vec_obj = "ok"}

VectorizerFile == [stem |-> "vectorizer", ext |-> "joblib"]
ModelFile == [stem |-> "logistic_regression", ext |-> "joblib"]
NotesFile == [stem |-> "README", ext |-> "md"]
FileNames == {VectorizerFile, ModelFile, NotesFile}

\* f.endswith('.joblib')
EndsWithJoblib(f) == f.ext = "joblib"

\* what joblib.load of a local file gives: the trainer writes the fitted
\* vectorizer to vectorizer.joblib and a classifier to <name>.joblib
FileKind(f) == IF f = VectorizerFile THEN "vectorizer" ELSE "classifier"

\* the models/ directory: whether it exists and the state of each file
\* (an existing directory always holds its README)
DirEnvs ==
    {d \in [exists : BOOLEAN, files : [FileNames -> ObjectStates]] :
        /\ d.files[NotesFile] = (IF d.exists THEN "ok" ELSE "absent")
        /\ ~d.exists => \A f \in FileNames : d.files[f] = "absent"}

\* [f for f in os.listdir(models_dir) if f.endswith('.joblib')], as a set
ModelFiles(d) == {f \in FileNames : d.files[f] /= "absent" /\ EndsWithJoblib(f)}

\* where _load_dummy_model raises, if it does
DummyStages == {"ok", "import", "fit_transform"}

\* first: the entry os.listdir happens to return first among the model files
Envs ==
    {e \in [s3 : S3Envs, dir : DirEnvs, first : FileNames, dummy : DummyStages] :
        IF ModelFiles(e.dir) = {} THEN e.first = NotesFile
        ELSE e.first \in ModelFiles(e.dir)}

----------------------------------------------------------------------------
(* S3Client.download_model as load_model uses it (no local_path) *)

\* The object, or None: download_file raising (unreachable store, missing
\* key) and joblib.load raising (corrupt blob) both end in `return None`.
DownloadModel(s3, key, now) ==
    LET obj == IF key = "model_key" THEN s3.model_obj ELSE s3.vec_obj
        kind == IF key = "model_key" THEN "classifier" ELSE "vectorizer"
    IN  IF s3.reachable /\ obj = "ok"
        THEN Artifact(kind, "s3", "none", now, TRUE)
        ELSE None

----------------------------------------------------------------------------
(* ModelLoader: the three tiers.  Each operator maps the holder h before   *)
(* the tier to the holder after it, the value returned and the tiers       *)
(* entered so far.                                                         *)

Outcome(h, ok, tiers) == [h |-> h, ok |-> ok, tiers |-> tiers]

\* _load_dummy_model creating a vectorizer only when the holder has none
LoadDummyModel_KeepsVectorizer(h, e, now, tiers) ==
    Outcome([model |-> Artifact("classifier", "dummy", "none", now, TRUE),
             vectorizer |-> IF h.vectorizer = None
                            THEN Artifact("vectorizer", "dummy", "none", now, TRUE)
                            ELSE h.vectorizer,
             model_info |-> [source |-> "dummy", loaded_at |-> now],
             last_loaded |-> now],
            e.dummy = "ok", Append(tiers, "dummy"))

\* ModelLoader._load_dummy_model
LoadDummyModel(h, e, now, tiers) ==
    LET t == Append(tiers, "dummy")
        lr(fit) == Artifact("classifier", "dummy", "none", now, fit)
        tfidf(fit) == Artifact("vectorizer", "dummy", "none", now, fit)
    IN  CASE e.dummy = "import" ->
               \* the imports raise: nothing assigned yet
               Outcome(h, FALSE, t)
          [] e.dummy = "fit_transform" ->
               \* both objects assigned, unfit; vectorizer.fit_transform raises
               Outcome([h EXCEPT !.model = lr(FALSE), !.vectorizer = tfidf(FALSE)],
                       FALSE, t)
          [] OTHER ->
               Outcome([model |-> lr(TRUE), vectorizer |-> tfidf(TRUE),
                        model_info |-> [source |-> "dummy", loaded_at |-> now],
                        last_loaded |-> now],
                       TRUE, t)

\* _load_local_fallback reporting failure instead of trying the placeholder
LoadLocalFallback_GivesUp(h, e, now, tiers) ==
    Outcome(h, FALSE, Append(tiers, "local"))

\* the body of _load_local_fallback up to its return: `next` is "return"
\* for `return True` and "dummy" for `return await self._load_dummy_model()`
LocalSegment(h, e, now) ==
    LET d == e.dir
        model_path == e.first
        \* self.model = joblib.load(model_path)
        h1 == [h EXCEPT !.model =
                  Artifact(FileKind(model_path), "local", model_path.stem, now, TRUE)]
        \* if os.path.exists(vectorizer_path): self.vectorizer = joblib.load(...)
        h2 == IF d.files[VectorizerFile] = "absent" THEN h1
              ELSE [h1 EXCEPT !.vectorizer =
                      Artifact("vectorizer", "local", VectorizerFile.stem, now, TRUE)]
    IN  IF ~d.exists THEN [h |-> h, next |-> "dummy"]
        ELSE IF ModelFiles(d) = {} THEN [h |-> h, next |-> "dummy"]
        ELSE IF d.files[model_path] = "corrupt"
             THEN \* joblib.load(model_path) raises
                  [h |-> h, next |-> "dummy"]
        ELSE IF d.files[VectorizerFile] = "corrupt"
             THEN \* joblib.load(vectorizer_path) raises, self.model already set
                  [h |-> h1, next |-> "dummy"]
        ELSE IF h2.model /= None /\ h2.vectorizer /= None
             THEN [h |-> [h2 EXCEPT !.model_info = [source |-> "local", loaded_at |-> now],
                                    !.last_loaded = now],
                   next |-> "return"]
        ELSE [h |-> h2, next |-> "dummy"]

\* ModelLoader._load_local_fallback
LoadLocalFallback(h, e, now, tiers) ==
    LET t == Append(tiers, "local")
        seg == LocalSegment(h, e, now)
    IN  IF seg.next = "dummy" THEN LoadDummyModel(seg.h, e, now, t)
        ELSE Outcome(seg.h, TRUE, t)

\* the body of load_model up to its return: `next` is "return" for
\* `return True` and "local" for `return await self._load_local_fallback()`;
\* s3c is `self.s3_client` being set
S3Segment(h, s3c, e, now) ==
    LET m == DownloadModel(e.s3, "model_key", now)
        v == DownloadModel(e.s3, "vectorizer_key", now)
        h1 == [h EXCEPT !.model = m]
        h2 == [h1 EXCEPT !.vectorizer = v]
    IN  IF ~s3c THEN [h |-> h, next |-> "local"]
        ELSE IF m = None THEN [h |-> h1, next |-> "local"]
        ELSE IF v = None THEN [h |-> h2, next |-> "local"]
        ELSE [h |-> [h2 EXCEPT !.model_info = [source |-> "s3", loaded_at |-> now],
                               !.last_loaded = now],
              next |-> "return"]

\* ModelLoader.load_model
LoadModel(h, s3c, e, now) ==
    LET t == <<"s3">>
        seg == S3Segment(h, s3c, e, now)
    IN  IF seg.next = "local" THEN LoadLocalFallback(seg.h, e, now, t)
        ELSE Outcome(seg.h, TRUE, t)

\* ModelLoader.get_model_info
GetModelInfo(h) ==
    IF ~IsModelLoaded(h) THEN [status |-> "no_model", info |-> EmptyInfo, last_loaded |-> 0]
    ELSE [status |-> "loaded", info |-> h.model_info, last_loaded |-> h.last_loaded]

----------------------------------------------------------------------------
(* Request texts and the artifacts' behaviour on them *)

Chars == {" ", "r", "f"}

RECURSIVE SeqsUpTo(_, _)
SeqsUpTo(S, n) ==
    IF n = 0 THEN {<<>>}
    ELSE LET shorter == SeqsUpTo(S, n - 1)
         IN  shorter \cup {Append(t, c) : t \in {u \in shorter : Len(u) = n - 1}, c \in S}

Texts == SeqsUpTo(Chars, MaxTextLen)

RECURSIVE LStrip(_)
LStrip(t) == IF t /= <<>> /\ Head(t) = " " THEN LStrip(Tail(t)) ELSE t

RECURSIVE RStrip(_)
RStrip(t) ==
    IF t /= <<>> /\ t[Len(t)] = " " THEN RStrip(SubSeq(t, 1, Len(t) - 1)) ELSE t

\* str.strip()
Strip(t) == RStrip(LStrip(t))

RECURSIVE Count(_, _)
Count(t, c) ==
    IF t = <<>> THEN 0 ELSE (IF Head(t) = c THEN 1 ELSE 0) + Count(Tail(t), c)

\* a (model, vectorizer) pair on which transform/predict/predict_proba work:
\* the model is a fitted classifier and the vectorizer a fitted vectorizer
Usable(h) ==
    /\ h.model.kind = "classifier" /\ h.model.fit
    /\ h.vectorizer.kind = "vectorizer" /\ h.vectorizer.fit

\* self.vectorizer.transform([text]): the features are term counts
Transform(text) == [r |-> Count(text, "r"), f |-> Count(text, "f")]

\* self.model.predict(x)[0]: class 1 when the decision value is positive
ModelPredict(x) == IF x.f > x.r THEN 1 ELSE 0

\* self.model.predict_proba(x)[0], in percent: <<real, fake>>
ModelPredictProba(x) ==
    IF x.f > x.r THEN <<25, 75>> ELSE IF x.f < x.r THEN <<75, 25>> ELSE <<50, 50>>

\* the smaller of the two taken for the larger
Max_Smaller(a, b) == IF a >= b THEN b ELSE a

\* max(probabilities) over the two classes
Max(a, b) == IF a >= b THEN a ELSE b

NoResult == [prediction |-> "none", confidence |-> 0, real |-> 0, fake |-> 0, error |-> ""]

\* ModelLoader.predict: raised is "no" when a result is returned
LoaderPredict(h, text) ==
    LET x == Transform(text)
        probabilities == ModelPredictProba(x)
    IN  IF ~IsModelLoaded(h)
        THEN [raised |-> "not_loaded", result |-> NoResult]
        ELSE IF ~Usable(h)
        THEN [raised |-> "prediction_error", result |-> NoResult]
        ELSE [raised |-> "no",
              result |-> [prediction |-> IF ModelPredict(x) = 1 THEN "fake" ELSE "real",
                          confidence |-> Max(probabilities[1], probabilities[2]),
                          real |-> probabilities[1],
                          fake |-> probabilities[2],
                          error |-> ""]]

----------------------------------------------------------------------------
(* What a load call met, recorded with its result *)

\* both remote downloads succeed
RemoteOk(s3c, e) ==
    /\ s3c
    /\ DownloadModel(e.s3, "model_key", 0) /= None
    /\ DownloadModel(e.s3, "vectorizer_key", 0) /= None

\* a loadable model file and a loadable vectorizer.joblib are in models/
LocalValid(e) ==
    /\ e.dir.exists
    /\ e.dir.files[ModelFile] = "ok"
    /\ e.dir.files[VectorizerFile] = "ok"

\* the store and the directory of a call that reads neither
QuietEnv == [s3 |-> [reachable |-> FALSE, model_obj |-> "ok", vec_obj |-> "ok"],
             dir |-> [exists |-> FALSE, files |-> [f \in FileNames |-> "absent"]],
             first |-> NotesFile, dummy |-> "ok"]

\* the placeholder can be constructed
DummyOk(e) == e.dummy = "ok"

NoCall == [op |-> "none", ok |-> FALSE, tiers |-> <<>>, pre_source |-> "none",
           remote_ok |-> FALSE, local_valid |-> FALSE, dummy_ok |-> FALSE]

\* pre: the holder the call started from
CallRecord(op, pre, out, s3c, e) ==
    [op |-> op, ok |-> out.ok, tiers |-> out.tiers,
     pre_source |-> pre.model_info.source,
     remote_ok |-> RemoteOk(s3c, e), local_valid |-> LocalValid(e),
     dummy_ok |-> DummyOk(e)]

NoResp == [op |-> "none", status |-> 0, raised |-> "no", result |-> NoResult,
           results |-> <<>>, n |-> 0, blank |-> FALSE, body |-> "none",
           texts |-> <<>>, config |-> NoConfig]

\* an HTTP answer with no prediction in it
Answer(op, status, body) == [NoResp EXCEPT !.op = op, !.status = status, !.body = body]

\* the holder's fields take the values of h
SetHolder(h) ==
    /\ model' = h.model
    /\ vectorizer' = h.vectorizer
    /\ model_info' = h.model_info
    /\ last_loaded' = h.last_loaded

----------------------------------------------------------------------------
(* The S3 service and the files of S3Client (src/src/storage/s3_client.py) *)

\* temporary files one behaviour may leave behind
MaxTempFiles == 2

\* object keys: one under the default prefix of list_models, one outside
Keys == {[prefix |-> "models/", name |-> "best_model.joblib"],
         [prefix |-> "backup/", name |-> "old.joblib"]}

Prefixes == {k.prefix : k \in Keys}

\* the Python objects a caller uploads
Objects == {"classifier", "vectorizer"}

\* an object joblib.dump cannot pickle
Unpicklable == "unpicklable"

\* Python's None as a return value
PyNone == "None"

\* no object under a key, no file at a path
Absent == [format |-> "absent", payload |-> "none"]

\* bytes that are not a joblib pickle
Garbage == [format |-> "garbage", payload |-> "none"]

\* joblib.dump(x, path): the bytes written
Dump(x) == [format |-> "joblib", payload |-> x]

\* joblib.load(path) of a file holding a joblib pickle
Load(blob) == blob.payload

\* joblib.load(path) raises
LoadRaises(blob) == blob.format /= "joblib"

\* the upload that writes the blob under every key
PutObject_AnyKey(objects, k, blob) == [j \in Keys |-> blob]

\* upload_file(tmp_file_path, bucket_name, object_key): the objects after it
PutObject(objects, k, blob) == [objects EXCEPT ![k] = blob]

\* local_path arguments: none, one under tempfile.gettempdir(), one elsewhere
NoPath == "None"
TmpPath == "/tmp/model.joblib"
HomePath == "/home/user/model.joblib"
Paths == {TmpPath, HomePath}

\* local_path.startswith(tempfile.gettempdir())
UnderTempDir(path) == path = TmpPath

\* a reachable service with no bucket
EmptyStore == [reachable |-> TRUE, bucket |-> FALSE, objects |-> [k \in Keys |-> Absent]]

\* how the service answers CreateBucket for a bucket that exists: 200 (own
\* bucket in us-east-1), or the error codes of the S3 API
ExistsAnswers == {"ok", "BucketAlreadyExists", "BucketAlreadyOwnedByYou"}

\* why a request to the service fails, "none" when it does not
TransferFails(st) ==
    IF ~st.reachable THEN "transport"
    ELSE IF ~st.bucket THEN "no_bucket"
    ELSE "none"

NoReply == [op |-> "none", key |-> "none", path |-> NoPath, arg |-> "none",
            ret |-> "none", keys |-> {}, raised |-> "no", cause |-> "none",
            existed |-> FALSE]


\* the requests that can be in flight together
TaskIds == {1, 2}

\* no request: pc is where the handler stands, now the number of its load
IdleTask == [pc |-> "idle", now |-> 0]

----------------------------------------------------------------------------
(* Initial state: the module is imported, nothing has been constructed *)

Init ==
    /\ loader = FALSE
    /\ model_loader = FALSE
    /\ s3_client = FALSE
    /\ s3_config = NoConfig
    /\ model = None
    /\ vectorizer = None
    /\ model_info = EmptyInfo
    /\ last_loaded = 0
    /\ clock = 0
    /\ started = FALSE
    /\ call = NoCall
    /\ resp = NoResp
    /\ tasks = [t \in TaskIds |-> IdleTask]
    /\ running = 0
    /\ store = EmptyStore
    /\ tmp_files = 0
    /\ local_files = [p \in Paths |-> Absent]
    /\ uploaded = [k \in Keys |-> "unknown"]
    /\ reply = NoReply

----------------------------------------------------------------------------
(* ModelLoader used directly (create_model_loader, the loader's tests) *)

\* ModelLoader.__init__: s3c is FALSE when S3Client is unavailable or its
\* constructor raised
CreateLoader ==
    /\ UNCHANGED <<loopVars, storeVars>>
    /\ ~loader /\ ~started
    /\ \E s3c \in BOOLEAN : s3_client' = s3c
    /\ \E cfg \in Configs :
         /\ s3_config' = cfg
         /\ resp' = [NoResp EXCEPT !.op = "ModelLoader", !.config = cfg]
    /\ loader' = TRUE
    /\ SetHolder(EmptyHolder)
    /\ call' = NoCall
    /\ UNCHANGED <<model_loader, clock, started>>

\* await loader.load_model() / loader.reload_model()
LoadModelCall ==
    /\ UNCHANGED <<loopVars, storeVars>>
    /\ loader /\ ~model_loader
    /\ clock < MaxLoads
    /\ \E e \in Envs :
         LET out == LoadModel(Holder, s3_client, e, clock + 1)
         IN  /\ SetHolder(out.h)
             /\ call' = CallRecord("load_model", Holder, out, s3_client, e)
    /\ clock' = clock + 1
    /\ resp' = NoResp
    /\ UNCHANGED <<loader, model_loader, s3_client, s3_config, started>>

\* await loader._load_dummy_model()
LoadDummyCall ==
    /\ UNCHANGED <<loopVars, storeVars>>
    /\ loader /\ ~model_loader
    /\ clock < MaxLoads
    /\ \E stage \in DummyStages :
         LET e == [QuietEnv EXCEPT !.dummy = stage]
             out == LoadDummyModel(Holder, e, clock + 1, <<>>)
         IN  /\ SetHolder(out.h)
             /\ call' = CallRecord("_load_dummy_model", Holder, out, s3_client, e)
    /\ clock' = clock + 1
    /\ resp' = NoResp
    /\ UNCHANGED <<loader, model_loader, s3_client, s3_config, started>>

\* loader.predict(text)
PredictCall ==
    /\ UNCHANGED <<loopVars, storeVars>>
    /\ loader /\ ~model_loader
    /\ \E text \in Texts :
         LET r == LoaderPredict(Holder, text)
         IN  resp' = [NoResp EXCEPT !.op = "ModelLoader.predict", !.raised = r.raised,
                                    !.result = r.result, !.blank = (Strip(text) = <<>>)]
    /\ call' = NoCall
    /\ UNCHANGED <<loader, model_loader, s3_client, s3_config, model, vectorizer, model_info,
                   last_loaded, clock, started>>

----------------------------------------------------------------------------
(* app.py: the entry points *)

\* "Máximo de 100 textos por requisição"
BatchLimit == 100

\* the entry points going on without the test
Unavailable_Unchecked == FALSE

\* the test that looks at the loader only, not at what it holds
Unavailable_LoaderOnly == ~model_loader

\* `not model_loader or not model_loader.is_model_loaded()`
Unavailable == ~model_loader \/ ~IsModelLoaded(Holder)

\* startup_event: imported is FALSE when `from api.model_loader import
\* ModelLoader` failed at import time, so that ModelLoader(...) raises and
\* the handler's except clause leaves model_loader unset
Startup ==
    /\ UNCHANGED <<loopVars, storeVars>>
    /\ ~started /\ ~loader
    /\ clock < MaxLoads
    /\ started' = TRUE
    /\ \E imported \in BOOLEAN, s3c \in BOOLEAN, e \in Envs :
         IF imported
         THEN LET out == LoadModel(EmptyHolder, s3c, e, clock + 1)
              IN  /\ loader' = TRUE
                  /\ model_loader' = TRUE
                  /\ s3_client' = s3c
                  /\ s3_config' = DefaultConfig
                  /\ SetHolder(out.h)
                  /\ clock' = clock + 1
                  /\ call' = CallRecord("load_model", EmptyHolder, out, s3c, e)
         ELSE /\ call' = NoCall
              /\ UNCHANGED <<loader, model_loader, s3_client, s3_config, model, vectorizer,
                             model_info, last_loaded, clock>>
    /\ resp' = Answer("startup", 0, "none")

\* POST /model/reload.  The HTTPException(503) is raised inside the try
\* block and `except Exception` turns it into a 500.
ReloadModel ==
    /\ UNCHANGED <<loopVars, storeVars>>
    /\ IF ~model_loader
       THEN /\ resp' = Answer("reload", 500, "Erro ao recarregar modelo")
            /\ call' = NoCall
            /\ UNCHANGED <<model, vectorizer, model_info, last_loaded, clock>>
       ELSE /\ clock < MaxLoads
            /\ \E e \in Envs :
                 LET out == LoadModel(Holder, s3_client, e, clock + 1)
                 IN  /\ SetHolder(out.h)
                     /\ call' = CallRecord("load_model", Holder, out, s3_client, e)
            /\ clock' = clock + 1
            /\ resp' = Answer("reload", 200, "Modelo recarregado com sucesso")
    /\ UNCHANGED <<loader, model_loader, s3_client, s3_config, started>>

\* POST /predict
PredictFakeNews ==
    /\ UNCHANGED <<loopVars, storeVars>>
    /\ \E text \in Texts :
         LET r == LoaderPredict(Holder, text)
             a == [Answer("predict", 0, "none") EXCEPT !.blank = (Strip(text) = <<>>)]
         IN  resp' =
               IF Unavailable THEN [a EXCEPT !.status = 503]
               ELSE IF Strip(text) = <<>> THEN [a EXCEPT !.status = 400]
               ELSE IF r.raised /= "no" THEN [a EXCEPT !.status = 500]
               ELSE [a EXCEPT !.status = 200, !.result = r.result]
    /\ call' = NoCall
    /\ UNCHANGED <<loader, model_loader, s3_client, s3_config, model, vectorizer, model_info,
                   last_loaded, clock, started>>

\* the entry batch_predict appends for an empty text
ErrorEntry == [prediction |-> "error", confidence |-> 0, real |-> 0, fake |-> 0,
               error |-> "Texto vazio"]

\* the text that stands out in a batch: a whitespace-only or a plain one
SampleTexts == {<<" ">>, <<"f">>}

\* the text that fills the rest of a batch: a blank one or a plain one
FillTexts == {<<>>, <<"r">>}

\* the batch sizes tried: the smallest ones and those around the limit
BatchSizes == {0, 1, BatchLimit, BatchLimit + 1}

\* a list of n texts, all `fill` except the k-th, which is `special`
Batch(n, k, special, fill) == [i \in 1..n |-> IF i = k THEN special ELSE fill]

\* the size check off by one
BatchTooLarge_OffByOne(texts) == Len(texts) >= BatchLimit

\* len(texts) > 100
BatchTooLarge(texts) == Len(texts) > BatchLimit

\* the loop dropping the blank texts instead of answering them
BatchResults_SkipsBlank(h, texts) ==
    LET NonBlank(t) == Strip(t) /= <<>>
        kept == SelectSeq(texts, NonBlank)
    IN  [i \in 1..Len(kept) |-> LoaderPredict(h, kept[i]).result]

\* the for loop of batch_predict over an accepted batch
BatchResults(h, texts) ==
    [i \in 1..Len(texts) |->
        IF Strip(texts[i]) /= <<>> THEN LoaderPredict(h, texts[i]).result
        ELSE ErrorEntry]

\* model_loader.predict raises for some text of the batch
BatchRaises(h, texts) ==
    \E i \in 1..Len(texts) :
        Strip(texts[i]) /= <<>> /\ LoaderPredict(h, texts[i]).raised /= "no"

\* POST /batch_predict
BatchPredict ==
    /\ UNCHANGED <<loopVars, storeVars>>
    /\ \E n \in BatchSizes, special \in SampleTexts, fill \in FillTexts :
       \E k \in {1, n} :
         LET texts == Batch(n, k, special, fill)
             a == [Answer("batch_predict", 0, "none") EXCEPT !.n = n]
             \* the for loop is reached: resp.texts is what it goes over
             l == [a EXCEPT !.texts = texts]
         IN  resp' =
               IF Unavailable THEN [a EXCEPT !.status = 503]
               ELSE IF BatchTooLarge(texts) THEN [a EXCEPT !.status = 400]
               ELSE IF BatchRaises(Holder, texts) THEN [l EXCEPT !.status = 500]
               ELSE [l EXCEPT !.status = 200, !.results = BatchResults(Holder, texts)]
    /\ call' = NoCall
    /\ UNCHANGED <<loader, model_loader, s3_client, s3_config, model, vectorizer, model_info,
                   last_loaded, clock, started>>

\* GET /health
HealthCheck ==
    /\ UNCHANGED <<loopVars, storeVars>>
    /\ resp' = Answer("health", 200,
                      IF model_loader /\ IsModelLoaded(Holder) THEN "healthy" ELSE "degraded")
    /\ call' = NoCall
    /\ UNCHANGED <<loader, model_loader, s3_client, s3_config, model, vectorizer, model_info,
                   last_loaded, clock, started>>

\* GET /model/info
ModelInfoEndpoint ==
    /\ UNCHANGED <<loopVars, storeVars>>
    /\ resp' = Answer("model_info", 200, IF Unavailable THEN "no_model" ELSE "loaded")
    /\ call' = NoCall
    /\ UNCHANGED <<loader, model_loader, s3_client, s3_config, model, vectorizer, model_info,
                   last_loaded, clock, started>>

----------------------------------------------------------------------------

Next ==
    \/ CreateLoader
    \/ LoadModelCall
    \/ LoadDummyCall
    \/ PredictCall
    \/ Startup
    \/ ReloadModel
    \/ PredictFakeNews
    \/ BatchPredict
    \/ HealthCheck
    \/ ModelInfoEndpoint

Spec == Init /\ [][Next]_vars

----------------------------------------------------------------------------
(* Properties of the fallback chain *)

TierOrder == <<"s3", "local", "dummy">>

\* the last step ran load_model to completion
LoadCompleted == call.op = "load_model"

\* C1: every load_model call enters the tiers in the order s3, local, dummy
\* and stops at the first that succeeds; it reports source 's3' when both
\* remote downloads succeed, 'local' when the remote tier fails and a valid
\* local model and vectorizer exist, and 'dummy' (the placeholder being
\* constructible) when the remote and the local tier both fail.
C1_FallbackOrder ==
    LoadCompleted =>
        /\ call.tiers = SubSeq(TierOrder, 1, Len(call.tiers))
        /\ call.remote_ok =>
              call.ok /\ call.tiers = <<"s3">> /\ model_info.source = "s3"
        /\ ~call.remote_ok /\ call.local_valid =>
              call.ok /\ call.tiers = <<"s3", "local">> /\ model_info.source = "local"
        /\ ~call.remote_ok /\ ~call.local_valid /\ call.dummy_ok =>
              call.ok /\ call.tiers = TierOrder /\ model_info.source = "dummy"

\* C2: after every completed load_model call the holder has both of model
\* and vectorizer set or neither.
C2_BothOrNeither ==
    LoadCompleted => ((model = None) <=> (vectorizer = None))

\* C3: a load_model call that returns False leaves model, vectorizer,
\* model_info and last_loaded as they were before the call.
C3_FailedLoadLeavesHolder ==
    [][(call'.op = "load_model" /\ ~call'.ok) => Holder' = Holder]_vars

\* C4: after every load_model call that returns True the active model and
\* the active vectorizer were both obtained by the same tier during that
\* call.
C4_SameTierSameCall ==
    (LoadCompleted /\ call.ok) =>
        /\ model.origin = vectorizer.origin
        /\ model.gen = clock
        /\ vectorizer.gen = clock

\* C5: after every completed load_model call the source reported by
\* get_model_info is the tier that produced the active model and the
\* active vectorizer; a placeholder artifact in use shows as 'dummy'.
\* (Stated for the calls that return True: it fails there already.)
C5_ProvenanceNamesTier ==
    (LoadCompleted /\ call.ok /\ IsModelLoaded(Holder)) =>
        /\ GetModelInfo(Holder).info.source = model.origin
        /\ GetModelInfo(Holder).info.source = vectorizer.origin

\* C6: in every environment where the placeholder can be constructed,
\* load_model returns True and is_model_loaded() is true afterwards,
\* whatever the remote store and the local directory hold.
C6_NeverTotalFailure ==
    (LoadCompleted /\ call.dummy_ok) =>
        call.ok /\ model /= None /\ vectorizer /= None

\* C6 witness: a call that found neither a remote nor a local pair and
\* went through all three tiers
C6_Witness ==
    /\ LoadCompleted /\ call.dummy_ok
    /\ ~call.remote_ok /\ ~call.local_valid
    /\ call.tiers = TierOrder
    /\ call.ok /\ IsModelLoaded(Holder)

\* the placeholder pair of the load call numbered `now`
DummyPair(now) ==
    [model |-> Artifact("classifier", "dummy", "none", now, TRUE),
     vectorizer |-> Artifact("vectorizer", "dummy", "none", now, TRUE)]

----------------------------------------------------------------------------
(* Properties of the entry points *)

C9_BlankTextIs400 ==
    (resp.op = "predict" /\ resp.blank) =>
        resp.status = 400 /\ resp.result = NoResult

\* C10: with a model loaded, /batch_predict answers 400 to a batch of more
\* than 100 texts and predicts none of them; a batch of 0 to 100 texts is
\* never answered 400, and is answered 200 with one entry per text whenever
\* the loaded pair can predict.
C10_BatchCap ==
    (resp.op = "batch_predict" /\ model_loader /\ model /= None /\ vectorizer /= None) =>
        /\ resp.n > BatchLimit => resp.status = 400 /\ resp.results = <<>>
        /\ resp.n <= BatchLimit =>
              /\ resp.status /= 400
              /\ Usable(Holder) => resp.status = 200 /\ Len(resp.results) = resp.n

\* C10 witness: a batch of 101 texts rejected by a service with a usable pair
C10_Witness ==
    /\ resp.op = "batch_predict" /\ resp.n = BatchLimit + 1 /\ resp.status = 400
    /\ model_loader /\ IsModelLoaded(Holder) /\ Usable(Holder)

----------------------------------------------------------------------------
(* Batch results *)

\* what POST /predict answers for one text with the holder as it is
SinglePredict(text) == LoaderPredict(Holder, text).result

\* C11: with a model loaded, a batch answered 200 carries one result per
\* input text in input order: the error entry exactly at the blank texts,
\* elsewhere what a single predict of that text gives; and a request within
\* the limit that is not answered 200 holds a text that is not blank, so a
\* blank item never aborts the batch.
C11_BatchPerItem ==
    (resp.op = "batch_predict" /\ model_loader /\ IsModelLoaded(Holder)) =>
        /\ resp.status = 200 =>
              /\ Len(resp.results) = Len(resp.texts)
              /\ \A i \in 1..Len(resp.texts) :
                    /\ (Strip(resp.texts[i]) = <<>>) <=> (resp.results[i].prediction = "error")
                    /\ Strip(resp.texts[i]) = <<>> =>
                          /\ resp.results[i].confidence = 0
                          /\ resp.results[i].real = 0 /\ resp.results[i].fake = 0
                          /\ resp.results[i].error /= ""
                    /\ Strip(resp.texts[i]) /= <<>> =>
                          resp.results[i] = SinglePredict(resp.texts[i])
        /\ (resp.n <= BatchLimit /\ resp.status /= 200) =>
              /\ Len(resp.texts) = resp.n
              /\ \E i \in 1..Len(resp.texts) : Strip(resp.texts[i]) /= <<>>

\* a full batch with one whitespace-only text among plain ones was answered
C11_Witness ==
    /\ resp.op = "batch_predict" /\ resp.status = 200
    /\ Len(resp.texts) = BatchLimit
    /\ resp.texts[BatchLimit] = <<" ">> /\ resp.texts[1] = <<"r">>
    /\ resp.results[BatchLimit] = ErrorEntry
    /\ resp.results[1].prediction = "real"

----------------------------------------------------------------------------
(* Label and confidence *)

\* the last step was a prediction on a pair of a fitted classifier and a
\* fitted vectorizer: ModelLoader.predict on any text, or POST /predict on
\* a text that is not blank
PredictedOnPair ==
    /\ IsModelLoaded(Holder) /\ Usable(Holder)
    /\ \/ resp.op = "ModelLoader.predict"
       \/ resp.op = "predict" /\ model_loader /\ ~resp.blank

\* C12: on a loaded model and vectorizer, predict returns a label that is
\* "real" or "fake", "fake" exactly when class 1 has the larger probability
\* (class 0 wins a tie, as argmax does), and a confidence that is the
\* larger of the two probabilities, which is the probability of the
\* returned label and lies between 0 and 1 (0..100 percent here).
C12_LabelAndConfidence ==
    PredictedOnPair =>
        LET r == resp.result
        IN  /\ resp.raised = "no"
            /\ resp.op = "predict" => resp.status = 200
            /\ r.prediction \in {"real", "fake"}
            /\ (r.prediction = "fake") <=> (r.fake > r.real)
            /\ r.confidence >= r.real /\ r.confidence >= r.fake
            /\ r.confidence = (IF r.prediction = "fake" THEN r.fake ELSE r.real)
            /\ r.confidence >= 0 /\ r.confidence <= 100
            /\ r.real + r.fake = 100

\* the placeholder pair answered "fake" with confidence 0.75
C12_Witness ==
    /\ PredictedOnPair
    /\ model_info.source = "dummy"
    /\ resp.result.prediction = "fake" /\ resp.result.confidence = 75

----------------------------------------------------------------------------
(* Construction *)

\* the calls that load: load_model (reload_model, startup) and
\* _load_dummy_model
LoadOps == {"load_model", "_load_dummy_model"}

\* C13: a step that constructs a ModelLoader leaves it empty (model and
\* vectorizer None, is_model_loaded() false, model_info empty, last_loaded
\* None) with the supplied configuration stored as given, whether or not
\* the S3 client could be created; and a holder that is not loaded becomes
\* loaded only in a step that made a load call.
C13_NewLoaderEmpty ==
    [][/\ resp'.op = "ModelLoader" =>
            /\ loader'
            /\ model' = None /\ vectorizer' = None
            /\ ~IsModelLoaded(Holder')
            /\ model_info' = EmptyInfo /\ last_loaded' = 0
            /\ s3_config' = resp'.config
            /\ GetModelInfo(Holder').status = "no_model"
       /\ (~IsModelLoaded(Holder) /\ IsModelLoaded(Holder')) => call'.op \in LoadOps
      ]_vars

\* a loader was constructed with the tests' configuration although the S3
\* client could not be created
C13_Witness ==
    /\ resp.op = "ModelLoader" /\ resp.config = TestConfig
    /\ loader /\ ~s3_client
    /\ s3_config = TestConfig

----------------------------------------------------------------------------
(* Status entry points *)

\* app.py has a loader and the loader holds a model and a vectorizer
LoaderReady == model_loader /\ model /= None /\ vectorizer /= None

\* C14: GET /health and GET /model/info always answer 200; /health says
\* "healthy" and /model/info says "loaded" exactly when a loader exists and
\* is_model_loaded() is true, "degraded" and "no_model" otherwise; neither
\* changes the loader or what it holds.
C14_StatusAgreesWithHolder ==
    [][/\ resp'.op = "health" =>
            /\ resp'.status = 200
            /\ resp'.body = (IF LoaderReady THEN "healthy" ELSE "degraded")
            /\ Holder' = Holder /\ model_loader' = model_loader
       /\ resp'.op = "model_info" =>
            /\ resp'.status = 200
            /\ resp'.body = (IF LoaderReady THEN "loaded" ELSE "no_model")
            /\ Holder' = Holder /\ model_loader' = model_loader
      ]_vars

\* /model/info answered "no_model" for a loader whose load left only the
\* model set
C14_Witness ==
    /\ resp.op = "model_info" /\ resp.body = "no_model" /\ resp.status = 200
    /\ model_loader /\ model /= None /\ vectorizer = None

\* /health answered "healthy"
C14_WitnessHealthy ==
    /\ resp.op = "health" /\ resp.body = "healthy" /\ LoaderReady

\* C15: a reload request that finds model_loader None is answered 503.
C15_ReloadWithoutLoaderIs503 ==
    (resp.op = "reload" /\ ~model_loader) => resp.status = 503

----------------------------------------------------------------------------
(* The entry points as tasks of the asyncio event loop.  The loop runs one *)
(* task at a time and takes another only when the running one returns or   *)
(* suspends at an await.  A load is cut at its awaits: load_model up to     *)
(* `await self._load_local_fallback()`, that one up to                      *)
(* `await self._load_dummy_model()`, then the placeholder.  The server      *)
(* accepts requests once startup_event has returned.                        *)

\* reload requests served after startup in one behaviour
MaxReloads == 2

\* every await handing control back to the event loop
Suspends_AtEveryAwait(callee) == TRUE

\* whether `await self.<callee>()` hands control back to the event loop:
\* awaiting a coroutine runs it inline, and neither callee awaits anything
\* but the next coroutine (downloads, joblib.load and fit are blocking calls)
Suspends(callee) == FALSE

\* the handler of task t is inside load_model
InLoad(tk, t) == tk[t].pc \in {"local", "dummy"}

\* reload_model returns its message
ReloadReturns(t) ==
    /\ tasks' = [tasks EXCEPT ![t] = IdleTask]
    /\ running' = 0
    /\ resp' = Answer("reload", 200, "Modelo recarregado com sucesso")

\* the load of task t reaches `await self.<callee>()`
ReloadAwaits(t, callee, now) ==
    /\ tasks' = [tasks EXCEPT ![t] = [pc |-> callee, now |-> now]]
    /\ running' = (IF Suspends(callee) THEN 0 ELSE t)
    /\ resp' = NoResp

\* a request for POST /model/reload or for a reading entry point arrives
RequestArrives(t) ==
    /\ UNCHANGED storeVars
    /\ started
    /\ tasks[t].pc = "idle"
    /\ \E kind \in {"reload", "read"} : tasks' = [tasks EXCEPT ![t].pc = kind]
    /\ call' = NoCall
    /\ resp' = NoResp
    /\ UNCHANGED <<loader, model_loader, s3_client, s3_config, model, vectorizer,
                   model_info, last_loaded, clock, started, running>>

\* the loop starts reload_model for task t: load_model up to its return or
\* its await of _load_local_fallback
ReloadStart(t) ==
    /\ UNCHANGED storeVars
    /\ tasks[t].pc = "reload"
    /\ running = 0
    /\ IF ~model_loader
       THEN /\ resp' = Answer("reload", 500, "Erro ao recarregar modelo")
            /\ tasks' = [tasks EXCEPT ![t] = IdleTask]
            /\ UNCHANGED <<model, vectorizer, model_info, last_loaded, clock, running>>
       ELSE /\ clock <= MaxReloads
            /\ clock' = clock + 1
            /\ \E s \in S3Envs :
                 LET now == clock + 1
                     seg == S3Segment(Holder, s3_client, [QuietEnv EXCEPT !.s3 = s], now)
                 IN  /\ SetHolder(seg.h)
                     /\ IF seg.next = "return" THEN ReloadReturns(t)
                        ELSE ReloadAwaits(t, "local", now)
    /\ call' = NoCall
    /\ UNCHANGED <<loader, model_loader, s3_client, s3_config, started>>

\* _load_local_fallback of task t, up to its return or its await of
\* _load_dummy_model
ReloadLocal(t) ==
    /\ UNCHANGED storeVars
    /\ tasks[t].pc = "local"
    /\ running \in {0, t}
    /\ \E e \in Envs :
         LET seg == LocalSegment(Holder, e, tasks[t].now)
         IN  /\ e.s3 = QuietEnv.s3 /\ e.dummy = QuietEnv.dummy
             /\ SetHolder(seg.h)
             /\ IF seg.next = "return" THEN ReloadReturns(t)
                ELSE ReloadAwaits(t, "dummy", tasks[t].now)
    /\ call' = NoCall
    /\ UNCHANGED <<loader, model_loader, s3_client, s3_config, clock, started>>

\* _load_dummy_model of task t
ReloadDummy(t) ==
    /\ UNCHANGED storeVars
    /\ tasks[t].pc = "dummy"
    /\ running \in {0, t}
    /\ \E stage \in DummyStages :
         LET out == LoadDummyModel(Holder, [QuietEnv EXCEPT !.dummy = stage],
                                   tasks[t].now, <<>>)
         IN  SetHolder(out.h)
    /\ ReloadReturns(t)
    /\ call' = NoCall
    /\ UNCHANGED <<loader, model_loader, s3_client, s3_config, clock, started>>

\* the loop runs a handler that reads the holder (is_model_loaded,
\* get_model_info) for task t
ReadHolder(t) ==
    /\ UNCHANGED storeVars
    /\ tasks[t].pc = "read"
    /\ running = 0
    /\ resp' = Answer("read", 200, IF Unavailable THEN "no_model" ELSE "loaded")
    /\ tasks' = [tasks EXCEPT ![t] = IdleTask]
    /\ call' = NoCall
    /\ UNCHANGED <<loader, model_loader, s3_client, s3_config, model, vectorizer,
                   model_info, last_loaded, clock, started, running>>

NextLoop ==
    \/ Startup
    \/ \E t \in TaskIds :
         \/ RequestArrives(t)
         \/ ReloadStart(t)
         \/ ReloadLocal(t)
         \/ ReloadDummy(t)
         \/ ReadHolder(t)

SpecLoop == Init /\ [][NextLoop]_vars

\* C16: at most one task is inside load_model at a time, and while one is,
\* no other handler takes a step: a second reload issued meanwhile waits
\* as a request and starts after the first has returned, so the writes of
\* two loads to model, vectorizer and model_info are never interleaved.
C16_LoadsNeverOverlap ==
    [][/\ \A t, u \in TaskIds : (InLoad(tasks', t) /\ InLoad(tasks', u)) => t = u
       /\ \A t, u \in TaskIds :
            (InLoad(tasks, u) /\ t /= u /\ tasks'[t] /= tasks[t]) =>
                /\ tasks[t].pc = "idle"
                /\ Holder' = Holder
      ]_vars

\* a reload is inside _load_dummy_model while a second reload request waits
C16_Witness ==
    /\ tasks[1].pc = "dummy" /\ running = 1
    /\ tasks[2].pc = "reload"
    /\ model /= None

\* the second of two reloads is inside its load after the first returned
C16_WitnessSecond ==
    /\ tasks[2].pc = "local" /\ tasks[2].now = 3
    /\ tasks[1].pc = "idle"

\* a holder whose parts do not belong together: one artifact without the
\* other, or model, vectorizer and model_info not all from the same load
Torn(h) ==
    \/ (h.model = None) /= (h.vectorizer = None)
    \/ /\ h.model /= None /\ h.vectorizer /= None
       /\ ~(h.model.gen = h.vectorizer.gen /\ h.model_info.loaded_at = h.model.gen)

----------------------------------------------------------------------------
(* S3Client: one action per method, and the service's own changes *)

\* S3Client.create_bucket.  An unreachable service makes boto3 raise
\* EndpointConnectionError, which is not a ClientError and is not caught.
CreateBucket ==
    /\ LET r == [NoReply EXCEPT !.op = "create_bucket", !.existed = store.bucket]
       IN  IF ~store.reachable
           THEN /\ reply' = [r EXCEPT !.raised = "EndpointConnectionError",
                                      !.cause = "transport"]
                /\ store' = store
           ELSE IF ~store.bucket
           THEN /\ reply' = [r EXCEPT !.ret = "True"]
                /\ store' = [store EXCEPT !.bucket = TRUE]
           ELSE \E answer \in ExistsAnswers :
                /\ reply' = [r EXCEPT !.cause = answer,
                                      !.ret = IF answer \in {"ok", "BucketAlreadyExists"}
                                              THEN "True" ELSE "False"]
                /\ store' = store
    /\ UNCHANGED <<tmp_files, local_files, uploaded>>
    /\ UNCHANGED <<loaderVars, loopVars>>

\* S3Client.upload_model: the temporary file is unlinked on the success
\* path only
UploadModel ==
    /\ tmp_files < MaxTempFiles
    /\ \E x \in Objects \cup {Unpicklable}, k \in Keys :
         LET r == [NoReply EXCEPT !.op = "upload_model", !.key = k, !.arg = x]
         IN  IF x = Unpicklable
             THEN \* joblib.dump raises
                  /\ reply' = [r EXCEPT !.ret = "False", !.cause = "unpicklable"]
                  /\ tmp_files' = tmp_files + 1
                  /\ UNCHANGED <<store, uploaded>>
             ELSE IF TransferFails(store) /= "none"
             THEN \* upload_file raises
                  /\ reply' = [r EXCEPT !.ret = "False", !.cause = TransferFails(store)]
                  /\ tmp_files' = tmp_files + 1
                  /\ UNCHANGED <<store, uploaded>>
             ELSE /\ reply' = [r EXCEPT !.ret = "True"]
                  /\ store' = [store EXCEPT !.objects = PutObject(@, k, Dump(x))]
                  /\ uploaded' = [uploaded EXCEPT ![k] = x]
                  /\ tmp_files' = tmp_files
    /\ UNCHANGED local_files
    /\ UNCHANGED <<loaderVars, loopVars>>

\* S3Client.download_model
DownloadFromStore ==
    /\ tmp_files < MaxTempFiles
    /\ \E k \in Keys, path \in {NoPath} \cup Paths :
         LET r == [NoReply EXCEPT !.op = "download_model", !.key = k, !.path = path]
             blob == store.objects[k]
             own == IF path = NoPath THEN 1 ELSE 0
         IN  IF TransferFails(store) /= "none" \/ blob = Absent
             THEN \* download_file raises: nothing is written at local_path
                  /\ reply' = [r EXCEPT !.ret = PyNone,
                                        !.cause = IF TransferFails(store) /= "none"
                                                  THEN TransferFails(store) ELSE "missing"]
                  /\ tmp_files' = tmp_files + own
                  /\ local_files' = local_files
             ELSE IF LoadRaises(blob)
             THEN \* joblib.load raises: the downloaded file stays
                  /\ reply' = [r EXCEPT !.ret = PyNone, !.cause = "corrupt"]
                  /\ tmp_files' = tmp_files + own
                  /\ local_files' = IF path = NoPath THEN local_files
                                    ELSE [local_files EXCEPT ![path] = blob]
             ELSE /\ reply' = [r EXCEPT !.ret = Load(blob)]
                  /\ tmp_files' = tmp_files
                  /\ local_files' =
                        IF path = NoPath THEN local_files
                        ELSE IF UnderTempDir(path)
                        THEN [local_files EXCEPT ![path] = Absent]
                        ELSE [local_files EXCEPT ![path] = blob]
    /\ UNCHANGED <<store, uploaded>>
    /\ UNCHANGED <<loaderVars, loopVars>>

\* S3Client.list_models
ListModels ==
    /\ \E prefix \in Prefixes :
         LET r == [NoReply EXCEPT !.op = "list_models", !.key = prefix, !.ret = "list"]
         IN  IF TransferFails(store) /= "none"
             THEN reply' = [r EXCEPT !.cause = TransferFails(store)]
             ELSE reply' = [r EXCEPT !.keys = {k \in Keys : /\ store.objects[k] /= Absent
                                                            /\ k.prefix = prefix}]
    /\ UNCHANGED <<store, tmp_files, local_files, uploaded>>
    /\ UNCHANGED <<loaderVars, loopVars>>

\* S3Client.delete_model
DeleteModel ==
    /\ \E k \in Keys :
         LET r == [NoReply EXCEPT !.op = "delete_model", !.key = k]
         IN  IF TransferFails(store) /= "none"
             THEN /\ reply' = [r EXCEPT !.ret = "False", !.cause = TransferFails(store)]
                  /\ UNCHANGED <<store, uploaded>>
             ELSE /\ reply' = [r EXCEPT !.ret = "True"]
                  /\ store' = [store EXCEPT !.objects[k] = Absent]
                  /\ uploaded' = [uploaded EXCEPT ![k] = "deleted"]
    /\ UNCHANGED <<tmp_files, local_files>>
    /\ UNCHANGED <<loaderVars, loopVars>>

\* S3Client.check_connection
CheckConnection ==
    /\ reply' = [NoReply EXCEPT !.op = "check_connection",
                                !.ret = IF store.reachable THEN "True" ELSE "False",
                                !.cause = IF store.reachable THEN "none" ELSE "transport"]
    /\ UNCHANGED <<store, tmp_files, local_files, uploaded>>
    /\ UNCHANGED <<loaderVars, loopVars>>

\* the service goes down or comes back
ServiceChanges ==
    /\ store' = [store EXCEPT !.reachable = ~store.reachable]
    /\ reply' = NoReply
    /\ UNCHANGED <<tmp_files, local_files, uploaded>>
    /\ UNCHANGED <<loaderVars, loopVars>>

\* another client of the service writes bytes under a key
AnotherWriter ==
    /\ store.reachable /\ store.bucket
    /\ \E k \in Keys :
         /\ store' = [store EXCEPT !.objects[k] = Garbage]
         /\ uploaded' = [uploaded EXCEPT ![k] = "unknown"]
    /\ reply' = NoReply
    /\ UNCHANGED <<tmp_files, local_files>>
    /\ UNCHANGED <<loaderVars, loopVars>>

NextStore ==
    \/ CreateBucket
    \/ UploadModel
    \/ DownloadFromStore
    \/ ListModels
    \/ DeleteModel
    \/ CheckConnection
    \/ ServiceChanges
    \/ AnotherWriter

SpecStore == Init /\ [][NextStore]_vars

----------------------------------------------------------------------------
(* S3Client: properties *)

\* C18: create_bucket of a bucket that already exists, asked of a reachable
\* service, returns True and raises nothing.
C18_ExistingBucketIsSuccess ==
    (reply.op = "create_bucket" /\ reply.existed /\ reply.cause /= "transport") =>
        /\ reply.ret = "True"
        /\ reply.raised = "no"

\* C19: a failed request never looks like a result: list_models returns an
\* empty list only when the request went through and no key matched, and
\* download_model returns None, its answer for a missing object, for no
\* other failure.
C19_FailuresAreReported ==
    /\ (reply.op = "list_models" /\ reply.raised = "no" /\ reply.keys = {}) =>
           reply.cause = "none"
    /\ (reply.op = "download_model" /\ reply.cause \notin {"none", "missing"}) =>
           reply.ret /= PyNone

----------------------------------------------------------------------------
(* Loads compared *)

\* what a load ends with: the value returned, the source recorded and the
\* tier each artifact came from
LoadEnd(out) ==
    [ok |-> out.ok, source |-> out.h.model_info.source,
     model |-> out.h.model.origin, vectorizer |-> out.h.vectorizer.origin]

\* C21: in every reachable state of a loader, and in every environment
\* in which the placeholder can be constructed, a load_model call made now
\* ends as the same call made from an empty holder: same result, same
\* source, artifacts from the same tier.
C21_LoadIgnoresHolder ==
    loader =>
        \A e \in Envs :
            DummyOk(e) =>
                LoadEnd(LoadModel(Holder, s3_client, e, clock + 1)) =
                    LoadEnd(LoadModel(EmptyHolder, s3_client, e, clock + 1))

\* C22: whenever is_model_loaded() is true both artifacts are fit,
\* model_info carries a source and last_loaded is set.
C22_LoadedIsUsableAndDescribed ==
    IsModelLoaded(Holder) =>
        /\ model.fit /\ vectorizer.fit
        /\ model_info.source /= "none"
        /\ last_loaded /= 0
        /\ GetModelInfo(Holder).info /= EmptyInfo

----------------------------------------------------------------------------
(* Failed loads at the entry points *)

\* C23: POST /model/reload on an initialised loader answers 200 with its
\* success message only when the load_model call it made returned True,
\* and answers an error when that call returned False.
C23_ReloadSurfacesFailure ==
    (resp.op = "reload" /\ call.op = "load_model") =>
        /\ resp.status = 200 => call.ok
        /\ ~call.ok => resp.status >= 400

\* C24: an object the local tier put in self.model is a classifier read
\* from a file other than vectorizer.joblib.
C24_LocalModelIsNotVectorizer ==
    model.origin = "local" =>
        /\ model.kind = "classifier"
        /\ model.file /= VectorizerFile.stem

\* C25: startup_event returns even when constructing the loader raised;
\* model_loader then stays unset, POST /predict and POST /batch_predict
\* are answered 503 with no prediction, and GET /health keeps answering
\* 200 "degraded".
C25_StartupFailureDegrades ==
    [][/\ resp'.op = "startup" => started'
       /\ (started /\ ~model_loader) =>
            /\ ~model_loader'
            /\ resp'.op \in {"predict", "batch_predict"} =>
                  /\ resp'.status = 503
                  /\ resp'.result = NoResult /\ resp'.results = <<>>
            /\ resp'.op = "health" =>
                  resp'.status = 200 /\ resp'.body = "degraded"
      ]_vars

\* after a startup that could not construct the loader, a batch of texts
\* was answered 503
C25_Witness ==
    /\ started /\ ~model_loader /\ ~loader
    /\ resp.op = "batch_predict" /\ resp.n = 1 /\ resp.status = 503

----------------------------------------------------------------------------
(* S3Client: files *)

\* C26: after download_model returned an object for a call that was given
\* local_path, the downloaded bytes are in the file at that path, wherever
\* the path lies.
C26_CallerFileKept ==
    (reply.op = "download_model" /\ reply.path /= NoPath /\ reply.ret /= PyNone) =>
        /\ local_files[reply.path] /= Absent
        /\ local_files[reply.path] = store.objects[reply.key]

\* C27: upload_model and download_model without local_path leave no
\* temporary file behind, whether they succeed or fail.
C27_NoTempFileOutlivesCall ==
    [][(\/ reply'.op = "upload_model"
        \/ reply'.op = "download_model" /\ reply'.path = NoPath) =>
            tmp_files' = tmp_files
      ]_vars

====
